---- MODULE Spec2Model ----
(***************************************************************************)
(* Model of src/lib.rs: SequenceInt<T, BITS>, a BITS-bit sequence number   *)
(* stored in the native unsigned integer T, ordered by RFC 1982 serial     *)
(* number arithmetic.                                                      *)
(*                                                                         *)
(* The storage type modelled is T = u8 (impl_uint!(u8)); u16, u32 and u64  *)
(* instantiate the same generic code with T::BITS = 16, 32, 64.  BITS is   *)
(* the const generic parameter (a u8), fixed for a whole behaviour, and    *)
(* ranges over valid and invalid widths.  debug_assertions is the build    *)
(* profile: debug_assert! and integer overflow checks are compiled in      *)
(* exactly when it is TRUE.                                                *)
(*                                                                         *)
(* x is the payload (self.0) of a SequenceInt that the program builds with *)
(* from and then updates with inc, dec, x = x + k and x = x - k.  Cmp      *)
(* compares it with a second SequenceInt built from a raw value.           *)
(* op, arg and prev record the last operation attempted, its raw argument  *)
(* and the payload it started from; when that operation is a comparison,   *)
(* y is the payload of the other operand and ord and eqr are the results   *)
(* of cmp and of ==.  panicked says that an operation has panicked.        *)
(* s, n and dir record a run of consecutive inc (or dec) calls: the value  *)
(* the run started from, its length and its direction.                     *)
(***************************************************************************)
EXTENDS Integers, FiniteSets, Sequences, TLC

VARIABLES BITS, debug_assertions, x, y, op, arg, prev, ord, eqr, panicked, s, n, dir

vars == <<BITS, debug_assertions, x, y, op, arg, prev, ord, eqr, panicked, s, n, dir>>

runvars == <<s, n, dir>>

\* Largest value of the const generic BITS that is explored (BITS is a u8).
MaxBITS == 10

\* Longest run of consecutive inc or dec calls that is explored.
MaxRun == 130

------------------------------------------------------------------------------
\* The storage type T = u8 and its UInt implementation.

T_BITS == 8

T_MAX == 2^T_BITS - 1

T_ZERO == 0

T_ONE == 1

\* every value of the storage type
Storage == 0..T_MAX

\* raw storage values handed to from, + and -: around zero, around half of
\* the storage range and around the storage maximum
Raw ==
    {0, 1, 2, (2^T_BITS + 2) \div 3, 2^(T_BITS - 1) - 1, 2^(T_BITS - 1),
     2^(T_BITS - 1) + 1, T_MAX - 1, T_MAX}

\* a value outside Storage: the variable holds no SequenceInt
NoValue == 0 - 1

wrapping_add(a, b) == (a + b) % 2^T_BITS

wrapping_sub(a, b) == (a - b + 2^T_BITS) % 2^T_BITS

\* wrapping_shl: the shift amount is taken modulo the width of T
shl(v, by) == (v * 2^(by % T_BITS)) % 2^T_BITS

RECURSIVE AndBits(_, _, _)
AndBits(a, b, k) ==
    IF k = 0 THEN 0
    ELSE (a % 2) * (b % 2) + 2 * AndBits(a \div 2, b \div 2, k - 1)

bit_and(a, b) == AndBits(a, b, T_BITS)

------------------------------------------------------------------------------
\* SequenceInt<T, BITS>

is_full_width == BITS = T_BITS

mod_mask_panics_upper_unchecked == debug_assertions /\ ~(BITS >= 1)

\* the two debug_assert! of mod_mask
mod_mask_panics == debug_assertions /\ ~(BITS >= 1 /\ BITS <= T_BITS)

mod_mask_not_decremented == IF is_full_width THEN T_MAX ELSE shl(T_ONE, BITS)

mod_mask ==
    IF is_full_width THEN T_MAX
    ELSE wrapping_sub(shl(T_ONE, BITS), T_ONE)

\* BITS - 1 is computed in u8: with overflow checks it panics for BITS = 0,
\* without them it wraps to 255
half_range_panics == debug_assertions /\ BITS < 1

half_range == shl(T_ONE, (BITS - 1 + 256) % 256)

mask_panics == ~is_full_width /\ mod_mask_panics

mask_identity(v) == v

mask(v) == IF is_full_width THEN v ELSE bit_and(v, mod_mask)

inc_saturating(p) == IF p = mod_mask THEN p ELSE mask(wrapping_add(p, T_ONE))

inc_unmasked(p) == wrapping_add(p, T_ONE)

inc(p) == mask(wrapping_add(p, T_ONE))

dec(p) == mask(wrapping_sub(p, T_ONE))

from_unmasked(value) == value

from(value) == mask(value)

eq(a, b) == a = b

cmp_panics(a, b) ==
    LET diff == IF is_full_width THEN wrapping_sub(b, a)
                ELSE bit_and(wrapping_sub(b, a), mod_mask)
    IN  \/ ~is_full_width /\ mod_mask_panics
        \/ diff # T_ZERO /\ half_range_panics

cmp_tie_less(a, b) ==
    LET d0 == wrapping_sub(b, a)
        diff == IF ~is_full_width THEN bit_and(d0, mod_mask) ELSE d0
    IN  IF diff = T_ZERO THEN "Equal"
        ELSE IF diff <= half_range THEN "Less"
        ELSE "Greater"

cmp_tie_by_payload(a, b) ==
    LET d0 == wrapping_sub(b, a)
        diff == IF ~is_full_width THEN bit_and(d0, mod_mask) ELSE d0
    IN  IF diff = T_ZERO THEN "Equal"
        ELSE IF diff < half_range \/ (diff = half_range /\ a < b) THEN "Less"
        ELSE "Greater"

cmp_plain(a, b) ==
    IF a = b THEN "Equal" ELSE IF a < b THEN "Less" ELSE "Greater"

cmp(a, b) ==
    LET d0 == wrapping_sub(b, a)
        diff == IF ~is_full_width THEN bit_and(d0, mod_mask) ELSE d0
    IN  IF diff = T_ZERO THEN "Equal"
        ELSE IF diff < half_range THEN "Less"
        ELSE "Greater"

partial_cmp(a, b) == cmp(a, b)

\* a < b and a > b: the comparison operators of PartialOrd, which go
\* through partial_cmp
lt(a, b) == partial_cmp(a, b) = "Less"

gt(a, b) == partial_cmp(a, b) = "Greater"

add_unmasked(p, rhs) == wrapping_add(p, rhs)

add(p, rhs) == mask(wrapping_add(p, rhs))

sub(p, rhs) == mask(wrapping_sub(p, rhs))

------------------------------------------------------------------------------
\* The program: operations on the sequence number x.

Init ==
    /\ BITS \in 0..MaxBITS
    /\ debug_assertions \in BOOLEAN
    /\ x = NoValue
    /\ y = NoValue
    /\ op = "init"
    /\ arg = NoValue
    /\ prev = NoValue
    /\ ord = "none"
    /\ eqr = FALSE
    /\ panicked = FALSE
    /\ s = NoValue
    /\ n = 0
    /\ dir = "none"

\* an operation that panics: nothing is returned or stored
Panic(o, a) ==
    /\ panicked' = TRUE
    /\ op' = o
    /\ arg' = a
    /\ prev' = NoValue
    /\ y' = NoValue
    /\ ord' = "none"
    /\ eqr' = FALSE
    /\ UNCHANGED <<BITS, debug_assertions, x>>

\* an operation that returns: o and a name it, p is the payload it started
\* from and v the payload of x after it
Return(o, a, p, v) ==
    /\ x' = v
    /\ op' = o
    /\ arg' = a
    /\ prev' = p
    /\ y' = NoValue
    /\ ord' = "none"
    /\ eqr' = FALSE
    /\ UNCHANGED <<BITS, debug_assertions, panicked>>

\* x = SequenceInt::from(raw)
FromOp(raw) ==
    /\ ~panicked
    /\ IF mask_panics THEN Panic("from", raw)
       ELSE Return("from", raw, NoValue, from(raw))

\* x.inc()
IncOp ==
    /\ ~panicked
    /\ x # NoValue
    /\ IF mask_panics THEN Panic("inc", NoValue)
       ELSE Return("inc", NoValue, x, inc(x))

\* x.dec()
DecOp ==
    /\ ~panicked
    /\ x # NoValue
    /\ IF mask_panics THEN Panic("dec", NoValue)
       ELSE Return("dec", NoValue, x, dec(x))

\* x = x + k
AddOp(k) ==
    /\ ~panicked
    /\ x # NoValue
    /\ IF mask_panics THEN Panic("add", k)
       ELSE Return("add", k, x, add(x, k))

\* x = x - k
SubOp(k) ==
    /\ ~panicked
    /\ x # NoValue
    /\ IF mask_panics THEN Panic("sub", k)
       ELSE Return("sub", k, x, sub(x, k))

\* x.cmp(&SequenceInt::from(raw)) and x == SequenceInt::from(raw): y is the
\* payload of the other operand
CmpOp(raw) ==
    /\ ~panicked
    /\ x # NoValue
    /\ IF mask_panics \/ cmp_panics(x, from(raw)) THEN Panic("cmp", raw)
       ELSE /\ y' = from(raw)
            /\ ord' = cmp(x, from(raw))
            /\ eqr' = eq(x, from(raw))
            /\ op' = "cmp"
            /\ arg' = raw
            /\ prev' = NoValue
            /\ UNCHANGED <<BITS, debug_assertions, x, panicked>>

From == \E raw \in Raw : FromOp(raw) /\ UNCHANGED runvars

Inc == IncOp /\ UNCHANGED runvars

Dec == DecOp /\ UNCHANGED runvars

Add == \E k \in Raw : AddOp(k) /\ UNCHANGED runvars

Sub == \E k \in Raw : SubOp(k) /\ UNCHANGED runvars

Cmp == \E raw \in Raw : CmpOp(raw) /\ UNCHANGED runvars

Next ==
    \/ From
    \/ Inc
    \/ Dec
    \/ Add
    \/ Sub
    \/ Cmp

Spec == Init /\ [][Next]_vars

------------------------------------------------------------------------------
\* A counter that is started from a raw value and then only advanced, or
\* only moved back: s is the value it started from, n the number of
\* consecutive inc (or dec) calls since.

\* let mut x = SequenceInt::from(raw); the run starts here
RunStart ==
    \E raw \in Storage :
        /\ x = NoValue
        /\ FromOp(raw)
        /\ s' = x'
        /\ n' = 0
        /\ dir' = "none"

RunInc ==
    /\ dir \in {"none", "inc"}
    /\ n < MaxRun
    /\ IncOp
    /\ s' = s
    /\ n' = IF panicked' THEN n ELSE n + 1
    /\ dir' = "inc"

RunDec ==
    /\ dir \in {"none", "dec"}
    /\ n < MaxRun
    /\ DecOp
    /\ s' = s
    /\ n' = IF panicked' THEN n ELSE n + 1
    /\ dir' = "dec"

RunNext ==
    \/ RunStart
    \/ RunInc
    \/ RunDec

SpecRun == Init /\ [][RunNext]_vars

------------------------------------------------------------------------------
\* Vocabulary of the properties.

\* the contract on BITS: 1 <= BITS <= bit-width(Storage)
ValidBITS == 1 <= BITS /\ BITS <= T_BITS

\* 2^BITS and 2^(BITS-1) as mathematical integers (BITS valid)
Modulus == 2^BITS

HALF_RANGE == 2^(BITS - 1)

\* v mod m, for any integer v
Mod(v, m) == ((v % m) + m) % m

Reverse(o) ==
    IF o = "Less" THEN "Greater" ELSE IF o = "Greater" THEN "Less" ELSE o

\* the RFC 1982 reference comparison on mathematical integers
Reference(a, b) ==
    LET diff == Mod(b - a, Modulus)
    IN  IF diff = 0 THEN "Equal"
        ELSE IF diff < HALF_RANGE THEN "Less"
        ELSE "Greater"

\* ceil(2^BITS / 3): one third of the ring, rounded up
Third == (Modulus + 2) \div 3

\* exactly one of a < b, a == b, a > b
ExactlyOne(a, b) ==
    /\ lt(a, b) \/ eq(a, b) \/ gt(a, b)
    /\ ~(lt(a, b) /\ eq(a, b))
    /\ ~(lt(a, b) /\ gt(a, b))
    /\ ~(eq(a, b) /\ gt(a, b))

Compared == op = "cmp" /\ ValidBITS

------------------------------------------------------------------------------
\* C1: for valid BITS, a comparison of payloads a and b returns Equal when
\* diff = (b - a) mod 2^BITS is 0, Less when 0 < diff < HALF_RANGE and
\* Greater when diff >= HALF_RANGE, the tie diff = HALF_RANGE included.
C1_CmpFollowsRFC1982 ==
    Compared =>
        LET diff == Mod(y - x, Modulus)
        IN  /\ ord = Reference(x, y)
            /\ diff = 0 => ord = "Equal"
            /\ (0 < diff /\ diff < HALF_RANGE) => ord = "Less"
            /\ diff >= HALF_RANGE => ord = "Greater"

\* a comparison of two antipodal values of a width below the storage width
C1_Witness ==
    /\ Compared
    /\ BITS < T_BITS
    /\ Mod(y - x, Modulus) = HALF_RANGE
    /\ ord = "Greater"

\* C2: for valid BITS, after any sequence of from, inc, dec, + and -, no
\* payload has a bit set at position >= BITS: payload <= 2^BITS - 1.
C2_MaskingInvariant ==
    ValidBITS =>
        /\ x # NoValue => (x >= 0 /\ x <= Modulus - 1 /\ x \div Modulus = 0)
        /\ y # NoValue => (y >= 0 /\ y <= Modulus - 1 /\ y \div Modulus = 0)

\* an offset addition whose unmasked sum has a bit at position >= BITS
C2_Witness ==
    /\ ValidBITS
    /\ BITS < T_BITS
    /\ op = "add"
    /\ prev + arg >= Modulus
    /\ prev + arg <= T_MAX

\* C3: for valid BITS, from(raw) has payload raw mod 2^BITS; when BITS is the
\* storage width the mask is all ones and the payload is raw itself, and
\* when BITS is smaller the mask is 2^BITS - 1.
C3_FromMasksExactly ==
    ValidBITS =>
        /\ op = "from" => x = arg % Modulus
        /\ op = "cmp" => y = arg % Modulus
        /\ is_full_width => mod_mask = T_MAX
        /\ (is_full_width /\ op = "from") => x = arg
        /\ ~is_full_width => mod_mask = Modulus - 1

\* a construction from a raw value that has bits at positions >= BITS
C3_Witness ==
    /\ ValidBITS
    /\ BITS < T_BITS
    /\ op = "from"
    /\ arg >= Modulus
    /\ x # arg

\* C4: for valid BITS, a payload a and any raw offset k, a + k has payload
\* (a + k) mod 2^BITS and a - k has payload (a - k) mod 2^BITS.
C4_OffsetIsModular ==
    ValidBITS =>
        /\ op = "add" => x = Mod(prev + arg, Modulus)
        /\ op = "sub" => x = Mod(prev - arg, Modulus)

\* from(2^BITS - 1) + 2 == from(1) for a width below the storage width
C4_Witness ==
    /\ ValidBITS
    /\ BITS < T_BITS
    /\ BITS > 1
    /\ op = "add"
    /\ prev = Modulus - 1
    /\ arg = 2
    /\ x = 1

\* C5: for valid BITS, inc replaces the payload p with (p + 1) mod 2^BITS
\* and dec replaces it with (p - 1) mod 2^BITS, and neither panics.
C5_IncDecWrap ==
    ValidBITS =>
        /\ op = "inc" => (~panicked /\ x = Mod(prev + 1, Modulus))
        /\ op = "dec" => (~panicked /\ x = Mod(prev - 1, Modulus))
        /\ (op = "inc" /\ prev = Modulus - 1) => x = 0
        /\ (op = "dec" /\ prev = 0) => x = Modulus - 1

\* inc on the maximum BITS-bit value of a width below the storage width
C5_Witness ==
    /\ ValidBITS
    /\ BITS < T_BITS
    /\ op = "inc"
    /\ prev = Modulus - 1
    /\ x = 0

\* C6 as stated: for valid BITS and any two values, exactly one of a < b,
\* a == b, a > b holds, and cmp(a, b) is the reverse of cmp(b, a).
C6_Original ==
    Compared =>
        /\ ExactlyOne(x, y)
        /\ ord = Reverse(cmp(y, x))
        /\ lt(x, y) <=> gt(y, x)

\* C6 amended: for valid BITS and any two values, exactly one of a < b,
\* a == b, a > b holds; cmp(a, b) is the reverse of cmp(b, a) unless
\* (b - a) mod 2^BITS = HALF_RANGE, and for such an antipodal pair both
\* cmp(a, b) and cmp(b, a) are Greater.
C6_TotalOnPairs ==
    Compared =>
        /\ ExactlyOne(x, y)
        /\ Mod(y - x, Modulus) # HALF_RANGE =>
              /\ ord = Reverse(cmp(y, x))
              /\ lt(x, y) <=> gt(y, x)
        /\ Mod(y - x, Modulus) = HALF_RANGE =>
              /\ ord = "Greater"
              /\ cmp(y, x) = "Greater"

\* a comparison of two antipodal values of the full storage width
C6_Witness ==
    /\ Compared
    /\ is_full_width
    /\ y = Mod(x + HALF_RANGE, Modulus)
    /\ gt(x, y)
    /\ gt(y, x)

\* C7: the order is not transitive: for every valid BITS >= 3 (the 8-bit
\* sequence included) the values a, b = a + Third, c = b + Third, one third
\* of the ring apart, form a cycle a < b, b < c, c < a.
C7_Cycle ==
    (Compared /\ BITS >= 3 /\ y = add(x, Third)) =>
        /\ ord = "Less"
        /\ lt(y, add(y, Third))
        /\ lt(add(y, Third), x)

\* a comparison of the 8-bit sequence numbers a and a + 86
C7_Witness ==
    /\ Compared
    /\ is_full_width
    /\ y = add(x, Third)
    /\ ord = "Less"
    /\ cmp(y, add(y, Third)) = "Less"
    /\ cmp(add(y, Third), x) = "Less"

\* C8: for valid BITS, a == b holds iff the payloads are identical iff
\* cmp(a, b) is Equal; from(v) == from(w) exactly when v and w agree
\* modulo 2^BITS.
C8_EqExact ==
    ValidBITS =>
        /\ op = "cmp" => /\ eqr <=> x = y
                         /\ eqr <=> ord = "Equal"
        /\ op = "from" =>
              \A w \in Storage :
                  eq(x, from(w)) <=> (arg % Modulus = w % Modulus)

\* two equal values, one of them built from a raw value above 2^BITS - 1
C8_Witness ==
    /\ Compared
    /\ BITS < T_BITS
    /\ arg >= Modulus
    /\ eqr
    /\ ord = "Equal"

\* C9: with assertions enabled, an operation panics if and only if BITS is
\* outside 1..T_BITS: for valid BITS no operation panics, for invalid BITS
\* no operation returns.
C9_OnlyBITSContractFails ==
    debug_assertions =>
        /\ panicked <=> (op # "init" /\ ~ValidBITS)
        /\ mask_panics <=> ~ValidBITS
        /\ \A a, b \in Raw : cmp_panics(a, b) <=> ~ValidBITS

\* from panics for a BITS above the storage width
C9_Witness ==
    /\ debug_assertions
    /\ BITS > T_BITS
    /\ op = "from"
    /\ panicked
    /\ x = NoValue

\* C10: for valid BITS and a start value s, after n consecutive inc calls
\* with 1 <= n < HALF_RANGE the current value c satisfies s < c and c > s;
\* after n consecutive dec calls with 1 <= n < HALF_RANGE, c < s.
C10_AdvancingIsNewer ==
    (ValidBITS /\ 1 <= n /\ n < HALF_RANGE) =>
        /\ dir = "inc" => (lt(s, x) /\ gt(x, s))
        /\ dir = "dec" => lt(x, s)

\* a run of inc calls that has crossed the wrap from 2^BITS - 1 to 0
C10_Witness ==
    /\ ValidBITS
    /\ BITS < T_BITS
    /\ dir = "inc"
    /\ 1 <= n
    /\ n < HALF_RANGE
    /\ x < s
    /\ lt(s, x)

====
